---------------------------- MODULE Spec2Model ----------------------------
(***************************************************************************)
(* A model of goldIV.py: the Dash callback update_surface (lines 95-189),  *)
(* which reads a spot price and the GLD option chain, keeps the rows in a  *)
(* +/-15% band around spot, fits a linear radial-basis surface through     *)
(* them and derives ATM vol, skew and a regime label.                      *)
(*                                                                         *)
(* Arithmetic.  The program computes in binary floating point; the model   *)
(* computes the same expressions exactly, in fixed point:                  *)
(*   prices (spot, y, otm_target)  thousandths of a currency unit          *)
(*   strikes, closes               whole currency units                    *)
(*   implied vols, skew            basis points (1e-4)                     *)
(*   days                          whole days                              *)
(* so 10.885 is 10885, 0.85 and 1.15 are 85 and 115 hundredths, 300 is     *)
(* 300000, and the skew cut points 0.04, 0.02, 0, -0.01 are 400, 200, 0,   *)
(* -100.  A comparison is carried out on both sides scaled alike.          *)
(***************************************************************************)
EXTENDS Integers, Sequences, FiniteSets, TLC

---------------------------------------------------------------------------
(* Program constants. *)

\* 10.885, the unit conversion of lines 104, 115, 121 (thousandths)
Multiplier == 10885

\* spot * 0.85 and spot * 1.15 of line 115 (hundredths)
BandLow == 85

BandHigh == 115

\* spot + 300 of line 142 (thousandths)
OtmOffset == 300000

\* np.linspace(..., 30) of lines 129-130
GridPoints == 30

\* ticker.options[1:5] of line 109
SliceStart == 1

SliceStop == 5

\* the label's cut points of line 183 (basis points)
BearishAbove == 200

BullishBelow == 0

\* the colour's cut points of line 178 (basis points)
RedAbove == 400

GreenBelow == -100

\* datetime.now().date() of line 111, as a day number
Today == 100

---------------------------------------------------------------------------
(* Bounds of the model. *)

\* rows in one expiration's call chain
MaxRows == 2

\* the listed expirations lie in Today .. Today + MaxDte
MaxDte == 2

\* the vols of the regime specification are 15% + k * 0.5%, k <= MaxVolSteps
MaxVolSteps == 12

\* observations in a frame of the fit specification
MaxObs == 3

---------------------------------------------------------------------------
(* The inputs the environment can supply. *)

\* a local name that is not bound yet, and one that is
Unbound == << >>

Bound(v) == << v >>

Val(b) == b[1]

\* State('manual-spot', 'value'): None, or the number typed (thousandths).
\* 217700 is 217.70 = 20 * 10.885: its band ends exactly at strikes 17 and
\* 23, and strikes 19 and 21 are equally far from it.
ManualPrices == { Unbound, Bound(0), Bound(217700) }

\* hist['Close'] of ticker.history(period="1d"): possibly no row at all
Closes == { 17 }

Histories == { << >> } \cup { << c >> : c \in Closes }
                \cup { << c, d >> : c \in Closes, d \in Closes }

Strikes == { 17, 19, 21, 23 }

ImpliedVols == { 2000, 2200 }

Rows == [ strike : Strikes, impliedVolatility : ImpliedVols ]

RowLess(a, b) == \/ a.strike < b.strike
                 \/ /\ a.strike = b.strike
                    /\ a.impliedVolatility < b.impliedVolatility

\* chain.calls: the rows of one expiration, listed by strike (a strike may
\* be quoted twice, with different vols)
Chains == { c \in UNION { [ 1..n -> Rows ] : n \in 0..MaxRows } :
              \A i \in 1..Len(c) - 1 : RowLess(c[i], c[i + 1]) }

ExpDates == Today .. Today + MaxDte

\* ticker.options: expiration dates not before today, in increasing order
OptionLists == { o \in UNION { [ 1..n -> ExpDates ] : n \in 0..MaxDte + 1 } :
                   \A i \in 1..Len(o) - 1 : o[i] < o[i + 1] }

LockClicks == { 0, 1 }

\* relayoutData: None, a dict without 'scene.camera', a dict with it
Relayouts == { "None", "autosize", "scene.camera" }

---------------------------------------------------------------------------
VARIABLES
  manual_price,   \* the callback's argument
  pc,             \* the callback's position
  spot, spot_source,
  hist_read,      \* whether ticker.history was called
  options,        \* ticker.options as read at line 109
  exp_i,          \* how many of options[1:5] the loop has done
  fetched,        \* the expirations ticker.option_chain was called for
  calls, days,    \* the loop's locals of lines 111, 114
  raw_points, df,
  ti_x, ti_y, ZI,
  rbf, ZI_corner, \* the weights and the mesh's corner values (SpecFit)
  atm_vol, otm_vol, skew,
  camera, uirevision,
  fig, metrics,
  exc,            \* the exception being handled
  ret             \* what the callback returned

vars == << manual_price, pc, spot, spot_source, hist_read, options, exp_i,
           fetched,
           calls, days, raw_points, df, ti_x, ti_y, ZI, atm_vol, otm_vol,
           rbf, ZI_corner, skew, camera, uirevision, fig, metrics, exc,
           ret >>

---------------------------------------------------------------------------
(* Pure helpers. *)

Abs(n) == IF n < 0 THEN -n ELSE n

SetMin(S) == CHOOSE m \in S : \A n \in S : m <= n

SetMax(S) == CHOOSE m \in S : \A n \in S : n <= m

Xs(d) == { d[i].x : i \in DOMAIN d }

Ys(d) == { d[i].y : i \in DOMAIN d }

\* seq[a:b] of Python, for 0 <= a <= b
Slice(seq, a, b) ==
  LET hi == IF b < Len(seq) THEN b ELSE Len(seq)
  IN  IF a >= hi THEN << >> ELSE SubSeq(seq, a + 1, hi)

\* `if manual_price:` -- None and 0 are both false
Truthy(mp) == mp # Unbound /\ Val(mp) # 0

\* the mask with the lower comparison not strict
InBandClosedBelow(row, s) ==
  /\ row.strike * Multiplier * 100 >= s * BandLow
  /\ row.strike * Multiplier * 100 < s * BandHigh

\* line 115: the mask on one row, strict on both sides
InBand(row, s) ==
  /\ row.strike * Multiplier * 100 > s * BandLow
  /\ row.strike * Multiplier * 100 < s * BandHigh

\* lines 116-123: the rows kept, as points
Point(row, d) ==
  [ x |-> d, y |-> row.strike * Multiplier, z |-> row.impliedVolatility ]

RECURSIVE Filtered(_, _, _)
Filtered(chain, d, s) ==
  IF chain = << >> THEN << >>
  ELSE LET rest == Filtered(Tail(chain), d, s)
       IN  IF InBand(Head(chain), s)
             THEN << Point(Head(chain), d) >> \o rest
             ELSE rest

\* np.linspace(lo, hi, n): the k-th value is lo + (k-1)(hi-lo)/(n-1); kept
\* as its numerator over n-1
Linspace(lo, hi, n) == [ k \in 1..n |-> lo * (n - 1) + (k - 1) * (hi - lo) ]

\* line 129: df['x'] on a frame built from no rows has no column 'x'
GridRaises(d) == d = << >>

\* line 134: Rbf(..., function='linear') solves A w = z with
\* A[i][j] = |p_i - p_j|.  It raises when every point is the same (no
\* nonzero bounding-box edge: division by zero) and when A is singular,
\* which for this kernel is exactly when two rows are the same point.
RbfRaises(d) ==
  \/ Len(d) <= 1
  \/ \E i, j \in DOMAIN d : i # j /\ d[i].x = d[j].x /\ d[i].y = d[j].y

(* The fit of line 134 in exact arithmetic.  Rbf(x, y, z, function='linear')
   sets A[i][j] = |p_i - p_j| (Euclidean), solves A w = z for the weights,
   and evaluates s(p) = SUM_j w[j] * |p - p_j|.  The weights are kept as
   the numerators num[j] over the common denominator den = det A (Cramer),
   which is what the solve returns when the arithmetic is exact.  The
   distance is a whole number on the frames of SpecFit. *)

ISqrt(n) == CHOOSE r \in 0..n : r * r <= n /\ n < (r + 1) * (r + 1)

\* the kernel on the distance r is r itself (function='linear')
Kernel(px, py, qx, qy) ==
  ISqrt((px - qx) * (px - qx) + (py - qy) * (py - qy))

\* the matrix of a fit called with smooth=1
RbfMatrixSmoothed(d) ==
  [ i \in DOMAIN d |->
      [ j \in DOMAIN d |->
          Kernel(d[i].x, d[i].y, d[j].x, d[j].y) - (IF i = j THEN 1 ELSE 0) ] ]

\* A = kernel(r) - smooth * I, and smooth is left at its default, 0
RbfMatrix(d) ==
  [ i \in DOMAIN d |->
      [ j \in DOMAIN d |-> Kernel(d[i].x, d[i].y, d[j].x, d[j].y) ] ]

\* M without row 1 and column c
Minor(M, c) ==
  [ i \in 1..Len(M) - 1 |->
      [ j \in 1..Len(M) - 1 |-> M[i + 1][IF j < c THEN j ELSE j + 1] ] ]

RECURSIVE Det(_)
Det(M) ==
  IF Len(M) = 0 THEN 1
  ELSE LET term[c \in 0..Len(M)] ==
             IF c = 0 THEN 0
             ELSE term[c - 1]
                    + (IF c % 2 = 1 THEN 1 ELSE -1)
                        * M[1][c] * Det(Minor(M, c))
       IN  term[Len(M)]

\* A with column c replaced by the z values
WithColumn(A, d, c) ==
  [ i \in DOMAIN A |->
      [ j \in DOMAIN A |-> IF j = c THEN d[i].z ELSE A[i][j] ] ]

RbfNodes(d) ==
  LET A == RbfMatrix(d)
  IN  [ den |-> Det(A),
        num |-> [ j \in DOMAIN d |-> Det(WithColumn(A, d, j)) ] ]

\* den * s(p) for the fitted weights w
RbfValue(w, d, qx, qy) ==
  LET part[j \in 0..Len(d)] ==
        IF j = 0 THEN 0
        ELSE part[j - 1] + w.num[j] * Kernel(qx, qy, d[j].x, d[j].y)
  IN  part[Len(d)]

\* line 139
NearTerm(d) ==
  LET m == SetMin(Xs(d)) IN SelectSeq(d, LAMBDA o : o.x = m)

\* (near_term['y'] - t).abs().argsort()[:1]: argsort uses numpy's default
\* quicksort, which is not stable, so position 0 of the permutation is some
\* row of least distance, not a particular one
Nearest(near, t) ==
  { i \in DOMAIN near :
      \A j \in DOMAIN near : Abs(near[i].y - t) <= Abs(near[j].y - t) }

\* the label with the upper comparison not strict
RegimeLabelClosed(s) ==
  IF s >= BearishAbove THEN "BEARISH"
  ELSE IF s < BullishBelow THEN "BULLISH" ELSE "NEUTRAL"

\* line 183
RegimeLabel(s) ==
  IF s > BearishAbove THEN "BEARISH"
  ELSE IF s < BullishBelow THEN "BULLISH" ELSE "NEUTRAL"

\* the colour cut at the label's points
RegimeColorAtLabelCuts(s) ==
  IF s > BullishBelow THEN "red"
  ELSE IF s < GreenBelow THEN "green" ELSE "gold"

\* line 178
RegimeColor(s) ==
  IF s > RedAbove THEN "red"
  ELSE IF s < GreenBelow THEN "green" ELSE "gold"

\* f"${spot:.2f}": thousandths rounded to hundredths
Fmt2f(s) == (s + 5) \div 10

\* lines 179-184
MetricsPanel(s, a, k) ==
  << [ label |-> "SPOT PRICE: ", number |-> Fmt2f(s), color |-> "text" ],
     [ label |-> "ATM VOL: ", number |-> a, color |-> "text" ],
     [ label |-> "SKEW (+300): ", number |-> k, color |-> RegimeColor(k) ],
     [ label |-> "REGIME: ", text |-> RegimeLabel(k),
       color |-> RegimeColor(k) ] >>

\* a clause naming the lookup errors only
CaughtLookupOnly(e) == e \in { "KeyError", "IndexError" }

\* the classes `except Exception` catches (line 188): every one raised here
Caught(e) == TRUE

\* a handler that returns the empty figure and no message
ErrorReturnSilent(e) == << [ kind |-> "empty" ], << >> >>

\* line 189
ErrorReturn(e) ==
  << [ kind |-> "empty" ],
     << [ label |-> "DATA ERROR: ", text |-> e, color |-> "red" ] >> >>

---------------------------------------------------------------------------
(* The callback, step by step. *)

Init ==
  /\ manual_price \in ManualPrices
  /\ pc = "spot"
  /\ spot = Unbound
  /\ spot_source = Unbound
  /\ hist_read = FALSE
  /\ options = Unbound
  /\ exp_i = 0
  /\ fetched = { }
  /\ calls = Unbound
  /\ days = Unbound
  /\ raw_points = << >>
  /\ df = Unbound
  /\ ti_x = Unbound
  /\ ti_y = Unbound
  /\ ZI = Unbound
  /\ rbf = Unbound
  /\ ZI_corner = Unbound
  /\ atm_vol = Unbound
  /\ otm_vol = Unbound
  /\ skew = Unbound
  /\ camera = Unbound
  /\ uirevision = Unbound
  /\ fig = Unbound
  /\ metrics = Unbound
  /\ exc = Unbound
  /\ ret = Unbound

Raise(e) == pc' = "except" /\ exc' = Bound(e)

\* lines 99-101
SpotManual ==
  /\ pc = "spot"
  /\ Truthy(manual_price)
  /\ spot' = Bound(Val(manual_price))
  /\ spot_source' = Bound("MANUAL")
  /\ pc' = "options"
  /\ UNCHANGED << manual_price, hist_read, options, exp_i, fetched, calls,
                  days,
                  raw_points, df, ti_x, ti_y, ZI, atm_vol, otm_vol, skew,
                  camera, uirevision, fig, metrics, exc, ret,
                  rbf, ZI_corner >>

\* lines 102-105; iloc[-1] of an empty column raises IndexError
SpotFeed ==
  /\ pc = "spot"
  /\ ~Truthy(manual_price)
  /\ hist_read' = TRUE
  /\ \E hist \in Histories :
       IF hist = << >>
         THEN /\ Raise("IndexError")
              /\ UNCHANGED << spot, spot_source >>
         ELSE /\ spot' = Bound(hist[Len(hist)] * Multiplier)
              /\ spot_source' = Bound("FEED")
              /\ pc' = "options"
              /\ exc' = exc
  /\ UNCHANGED << manual_price, options, exp_i, fetched, calls, days,
                  raw_points, df,
                  ti_x, ti_y, ZI, atm_vol, otm_vol, skew, camera,
                  uirevision, fig, metrics, ret,
                  rbf, ZI_corner >>

\* line 109: ticker.options is read once, when the loop starts
ReadOptions ==
  /\ pc = "options"
  /\ \E o \in OptionLists : options' = Bound(o)
  /\ pc' = "scan"
  /\ UNCHANGED << manual_price, spot, spot_source, hist_read, exp_i, fetched,
                  calls,
                  days, raw_points, df, ti_x, ti_y, ZI, atm_vol, otm_vol,
                  skew, camera, uirevision, fig, metrics, exc, ret,
                  rbf, ZI_corner >>

Scanned == Slice(Val(options), SliceStart, SliceStop)

\* lines 109-123: one iteration of the loop
ScanExpiration ==
  /\ pc = "scan"
  /\ exp_i < Len(Scanned)
  /\ LET exp == Scanned[exp_i + 1]
         d == exp - Today
     IN  \E chain \in Chains :
           /\ calls' = Bound(chain)
           /\ days' = Bound(d)
           /\ raw_points' = raw_points \o Filtered(chain, d, Val(spot))
  /\ exp_i' = exp_i + 1
  /\ fetched' = fetched \cup { Scanned[exp_i + 1] }
  /\ UNCHANGED << manual_price, pc, spot, spot_source, hist_read, options, df,
                  ti_x, ti_y, ZI, atm_vol, otm_vol, skew, camera,
                  uirevision, fig, metrics, exc, ret,
                  rbf, ZI_corner >>

\* the quote source fails: ticker.history, ticker.options or
\* ticker.option_chain raises
FeedError ==
  /\ \/ pc = "spot" /\ ~Truthy(manual_price)
     \/ pc = "options"
     \/ pc = "scan" /\ exp_i < Len(Scanned)
  /\ Raise("ConnectionError")
  /\ UNCHANGED << manual_price, spot, spot_source, hist_read, options, exp_i,
                  fetched, calls, days, raw_points, df, ti_x, ti_y, ZI,
                  atm_vol, otm_vol, skew, camera, uirevision, fig, metrics, ret,
                  rbf, ZI_corner >>

\* lines 125-131: the loop is over; the frame and the grid axes
BuildGrid ==
  /\ pc = "scan"
  /\ exp_i = Len(Scanned)
  /\ df' = Bound(raw_points)
  /\ IF GridRaises(raw_points)
       THEN /\ Raise("KeyError")
            /\ UNCHANGED << ti_x, ti_y >>
       ELSE /\ ti_x' = Bound(Linspace(SetMin(Xs(raw_points)),
                                      SetMax(Xs(raw_points)), GridPoints))
            /\ ti_y' = Bound(Linspace(SetMin(Ys(raw_points)),
                                      SetMax(Ys(raw_points)), GridPoints))
            /\ pc' = "rbf"
            /\ exc' = exc
  /\ UNCHANGED << manual_price, spot, spot_source, hist_read, options, exp_i,
                  fetched, calls, days, raw_points, ZI, atm_vol, otm_vol, skew,
                  camera, uirevision, fig, metrics, ret,
                  rbf, ZI_corner >>

\* lines 134-135: the fit, and its values on the mesh (kept as the shape)
Interpolate ==
  /\ pc = "rbf"
  /\ IF RbfRaises(Val(df))
       THEN /\ Raise("LinAlgError")
            /\ ZI' = ZI
       ELSE /\ ZI' = Bound(<< Len(Val(ti_y)), Len(Val(ti_x)) >>)
            /\ pc' = "stats"
            /\ exc' = exc
  /\ UNCHANGED << manual_price, spot, spot_source, hist_read, options, exp_i,
                  fetched, calls, days, raw_points, df, ti_x, ti_y, atm_vol,
                  otm_vol, skew, camera, uirevision, fig, metrics, ret,
                  rbf, ZI_corner >>

\* lines 139-147
RegimeStats ==
  /\ pc = "stats"
  /\ LET near == NearTerm(Val(df))
         otm_target == Val(spot) + OtmOffset
     IN  IF near # << >>
           THEN \E i \in Nearest(near, Val(spot)) :
                \E j \in Nearest(near, otm_target) :
                  /\ atm_vol' = Bound(near[i].z)
                  /\ otm_vol' = Bound(near[j].z)
                  /\ skew' = Bound(near[j].z - near[i].z)
           ELSE /\ skew' = Bound(0)
                /\ UNCHANGED << atm_vol, otm_vol >>
  /\ pc' = "plot"
  /\ UNCHANGED << manual_price, spot, spot_source, hist_read, options, exp_i,
                  fetched, calls, days, raw_points, df, ti_x, ti_y, ZI, camera,
                  uirevision, fig, metrics, exc, ret,
                  rbf, ZI_corner >>

\* lines 150-175: the camera kept when the view is locked, and the figure
Plotting ==
  /\ pc = "plot"
  /\ \E lock_clicks \in LockClicks, relayout \in Relayouts :
       /\ camera' = IF lock_clicks % 2 = 1 /\ relayout = "scene.camera"
                      THEN Bound("scene.camera") ELSE Bound("None")
       /\ uirevision' = IF lock_clicks % 2 = 1 THEN Bound("locked")
                                               ELSE Bound("unlocked")
  /\ fig' = Bound([ kind |-> "surface", x |-> Val(ti_x), y |-> Val(ti_y),
                    shape |-> Val(ZI), markers |-> Val(df),
                    camera |-> Val(camera'), uirevision |-> Val(uirevision') ])
  /\ pc' = "metrics"
  /\ UNCHANGED << manual_price, spot, spot_source, hist_read, options, exp_i,
                  fetched, calls, days, raw_points, df, ti_x, ti_y, ZI,
                  atm_vol, otm_vol, skew, metrics, exc, ret,
                  rbf, ZI_corner >>

\* lines 178-186; atm_vol is not bound after the else branch of line 147
MetricsOutput ==
  /\ pc = "metrics"
  /\ IF atm_vol = Unbound
       THEN /\ Raise("UnboundLocalError")
            /\ UNCHANGED << metrics, ret >>
       ELSE /\ metrics' = Bound(MetricsPanel(Val(spot), Val(atm_vol),
                                             Val(skew)))
            /\ ret' = Bound(<< Val(fig), Val(metrics') >>)
            /\ pc' = "done"
            /\ exc' = exc
  /\ UNCHANGED << manual_price, spot, spot_source, hist_read, options, exp_i,
                  fetched, calls, days, raw_points, df, ti_x, ti_y, ZI,
                  atm_vol, otm_vol, skew, camera, uirevision, fig,
                  rbf, ZI_corner >>

\* lines 188-189; an exception the clause does not catch leaves the callback
Except ==
  /\ pc = "except"
  /\ IF Caught(Val(exc))
       THEN ret' = Bound(ErrorReturn(Val(exc))) /\ pc' = "done"
       ELSE ret' = ret /\ pc' = "escaped"
  /\ UNCHANGED << manual_price, spot, spot_source, hist_read, options, exp_i,
                  fetched, calls, days, raw_points, df, ti_x, ti_y, ZI,
                  atm_vol, otm_vol, skew, camera, uirevision, fig, metrics, exc,
                  rbf, ZI_corner >>

(* The fit alone: lines 125-135 on frames whose points lie on the corners of
   a 3 by 4 rectangle, where every distance is 0, 3, 4 or 5.  The mesh's
   four corners are then points of the rectangle, so ZI there is computed
   exactly; the other mesh values are not represented. *)

FitPoints == [ x : { 0, 3 }, y : { 0, 4 }, z : ImpliedVols ]

FitFrames == UNION { [ 1..n -> FitPoints ] : n \in 1..MaxObs }

InitFit ==
  /\ manual_price = Unbound
  /\ pc = "scan"
  /\ spot = Unbound
  /\ spot_source = Unbound
  /\ hist_read = FALSE
  /\ options = Bound(<< >>)
  /\ exp_i = 0
  /\ fetched = { }
  /\ calls = Unbound
  /\ days = Unbound
  /\ raw_points \in FitFrames
  /\ df = Unbound
  /\ ti_x = Unbound
  /\ ti_y = Unbound
  /\ ZI = Unbound
  /\ rbf = Unbound
  /\ ZI_corner = Unbound
  /\ atm_vol = Unbound
  /\ otm_vol = Unbound
  /\ skew = Unbound
  /\ camera = Unbound
  /\ uirevision = Unbound
  /\ fig = Unbound
  /\ metrics = Unbound
  /\ exc = Unbound
  /\ ret = Unbound

\* XI[r][c] = ti_x[c] and YI[r][c] = ti_y[r] (np.meshgrid, line 131)
MeshCorners == { 1, GridPoints } \X { 1, GridPoints }

\* lines 134-135 with the weights and ZI's corners worked out
InterpolateExact ==
  /\ pc = "rbf"
  /\ IF RbfRaises(Val(df))
       THEN /\ Raise("LinAlgError")
            /\ UNCHANGED << ZI, rbf, ZI_corner >>
       ELSE /\ rbf' = Bound(RbfNodes(Val(df)))
            /\ ZI' = Bound(<< Len(Val(ti_y)), Len(Val(ti_x)) >>)
            /\ ZI_corner' =
                 Bound([ rc \in MeshCorners |->
                           RbfValue(Val(rbf'), Val(df),
                                    Val(ti_x)[rc[2]] \div (GridPoints - 1),
                                    Val(ti_y)[rc[1]] \div (GridPoints - 1)) ])
            /\ pc' = "stats"
            /\ exc' = exc
  /\ UNCHANGED << manual_price, spot, spot_source, hist_read, options, exp_i,
                  fetched, calls, days, raw_points, df, ti_x, ti_y, atm_vol,
                  otm_vol, skew, camera, uirevision, fig, metrics, ret >>

NextFit ==
  \/ BuildGrid
  \/ InterpolateExact
  \/ Except

SpecFit == InitFit /\ [][NextFit]_vars

(* The statistics and the panel alone: the callback from line 139 on, on a
   frame of two near-term rows and one later row, with the near-term vols
   drawn from a finer grid than the scan's. *)

VolGrid == { 1500 + 50 * k : k \in 0..MaxVolSteps }

RegimeFrame(a, o) ==
  << [ x |-> 1, y |-> 17 * Multiplier, z |-> a ],
     [ x |-> 1, y |-> 19 * Multiplier, z |-> o ],
     [ x |-> 2, y |-> 17 * Multiplier, z |-> 2000 ] >>

InitRegime ==
  /\ manual_price = Unbound
  /\ pc = "stats"
  /\ spot = Bound(17 * Multiplier)
  /\ spot_source = Bound("FEED")
  /\ hist_read = TRUE
  /\ options = Bound(<< Today, Today + 1, Today + 2 >>)
  /\ exp_i = 2
  /\ fetched = { Today + 1, Today + 2 }
  /\ calls = Bound(<< [ strike |-> 17, impliedVolatility |-> 2000 ] >>)
  /\ days = Bound(2)
  /\ \E a \in VolGrid, o \in VolGrid :
       /\ raw_points = RegimeFrame(a, o)
       /\ df = Bound(RegimeFrame(a, o))
  /\ ti_x = Bound(Linspace(1, 2, GridPoints))
  /\ ti_y = Bound(Linspace(17 * Multiplier, 19 * Multiplier, GridPoints))
  /\ ZI = Bound(<< GridPoints, GridPoints >>)
  /\ rbf = Unbound
  /\ ZI_corner = Unbound
  /\ atm_vol = Unbound
  /\ otm_vol = Unbound
  /\ skew = Unbound
  /\ camera = Unbound
  /\ uirevision = Unbound
  /\ fig = Unbound
  /\ metrics = Unbound
  /\ exc = Unbound
  /\ ret = Unbound

NextRegime ==
  \/ RegimeStats
  \/ Plotting
  \/ MetricsOutput

SpecRegime == InitRegime /\ [][NextRegime]_vars

Next ==
  \/ SpotManual
  \/ SpotFeed
  \/ ReadOptions
  \/ ScanExpiration
  \/ FeedError
  \/ BuildGrid
  \/ Interpolate
  \/ RegimeStats
  \/ Plotting
  \/ MetricsOutput
  \/ Except

Spec == Init /\ [][Next]_vars

---------------------------------------------------------------------------
(* What the callback returned. *)

Figure == ret[1][1]

Children == ret[1][2]

\* the fitted surface with the four-entry panel
IsSuccess ==
  /\ Figure.kind = "surface"
  /\ Figure.shape = << 30, 30 >>
  /\ Len(Children) = 4
  /\ Children[1].label = "SPOT PRICE: "
  /\ Children[2].label = "ATM VOL: "
  /\ Children[3].label = "SKEW (+300): "
  /\ Children[4].label = "REGIME: "

\* the empty figure with the single error message
IsError ==
  /\ Figure.kind = "empty"
  /\ Len(Children) = 1
  /\ Children[1].label = "DATA ERROR: "

---------------------------------------------------------------------------
(* C1: band filter. *)

\* the claim's condition on a row, written out
StrictlyInside(strike, s) ==
  s * 85 < strike * 10885 * 100 /\ strike * 10885 * 100 < s * 115

\* the points the last iteration appended (expirations differ in days)
Appended == SelectSeq(raw_points, LAMBDA o : o.x = Val(days))

KeptRows ==
  SelectSeq(Val(calls), LAMBDA r : StrictlyInside(r.strike, Val(spot)))

\* C1: every observation lies strictly inside (0.85 spot, 1.15 spot), and
\* the rows of a scanned chain that became observations are exactly those
\* with spot*0.85 < strike*10.885 < spot*1.15, in the chain's order; a row
\* on either end of the band is not among them.
C1_BandFilter ==
  /\ \A i \in DOMAIN raw_points :
       /\ Val(spot) * 85 < raw_points[i].y * 100
       /\ raw_points[i].y * 100 < Val(spot) * 115
  /\ calls # Unbound =>
       /\ Len(Appended) = Len(KeptRows)
       /\ \A i \in DOMAIN KeptRows :
            /\ Appended[i].y = KeptRows[i].strike * 10885
            /\ Appended[i].z = KeptRows[i].impliedVolatility

\* a chain with a row exactly on the lower end of the band and a row inside
\* it has been scanned, and only the second became an observation
C1_Witness ==
  /\ pc = "scan"
  /\ calls # Unbound
  /\ Len(Val(calls)) = 2
  /\ Val(calls)[1].strike * 10885 * 100 = Val(spot) * 85
  /\ StrictlyInside(Val(calls)[2].strike, Val(spot))
  /\ Len(Appended) = 1

---------------------------------------------------------------------------
(* C2: nearest-strike lookup. *)

\* the rows of the least x
NearRows ==
  SelectSeq(Val(df),
            LAMBDA o : \A k \in DOMAIN Val(df) : o.x <= Val(df)[k].x)

\* the first row, in input order, of least distance to t
FirstNearest(t) ==
  CHOOSE i \in DOMAIN NearRows :
    /\ \A j \in DOMAIN NearRows :
         Abs(NearRows[i].y - t) <= Abs(NearRows[j].y - t)
    /\ \A j \in 1..i - 1 :
         Abs(NearRows[j].y - t) > Abs(NearRows[i].y - t)

---------------------------------------------------------------------------
(* C4: empty input. *)

\* C4: when the band filter leaves no observation the request ends in the
\* error outcome; no grid, statistic or panel is ever produced from the
\* empty frame, so the branch of line 147 returns nothing.
C4_EmptyInput ==
  df = Bound(<< >>) =>
    /\ pc \in { "except", "done" }
    /\ ti_x = Unbound /\ ZI = Unbound /\ skew = Unbound /\ metrics = Unbound
    /\ pc = "done" => IsError

\* rows were read, none was inside the band, and the callback returned
C4_Witness ==
  /\ pc = "done"
  /\ df = Bound(<< >>)
  /\ calls # Unbound /\ Val(calls) # << >>
  /\ IsError

---------------------------------------------------------------------------
(* C5: degenerate span. *)

\* C5: with fewer than 2 distinct x or fewer than 2 distinct y among the
\* observations the fit fails: no surface is evaluated and the callback
\* returns the error outcome.
C5_DegenerateSpan ==
  ( /\ df # Unbound
    /\ \/ Cardinality(Xs(Val(df))) < 2
       \/ Cardinality(Ys(Val(df))) < 2 ) =>
    /\ ZI = Unbound
    /\ pc = "done" => IsError

---------------------------------------------------------------------------
(* C6: expiration selection. *)

AllFuture == \A i \in DOMAIN Val(options) : Val(options)[i] > Today

\* the up to 4 nearest listed expirations
Nearest4 ==
  { Val(options)[i] : i \in { k \in DOMAIN Val(options) : k <= 4 } }

\* C6: when every listed expiration is after today, each observation's x is
\* the days to one of the up to 4 nearest of them and is not negative, and
\* once the loop is over every one of those has been scanned.
C6_ExpirationSelection ==
  (options # Unbound /\ AllFuture) =>
    /\ \A i \in DOMAIN raw_points :
         /\ raw_points[i].x >= 0
         /\ \E e \in Nearest4 : raw_points[i].x = e - Today
    /\ df # Unbound => Nearest4 \subseteq fetched

---------------------------------------------------------------------------
(* C7: spot source. *)

\* C7: once spot is decided, a supplied manual value (any number) is the
\* spot, unchanged, with source MANUAL and the feed's history unread; only
\* with no manual value is spot the last close times 10.885, source FEED.
C7_SpotSource ==
  pc # "spot" =>
    /\ manual_price # Unbound =>
         /\ spot = manual_price
         /\ spot_source = Bound("MANUAL")
         /\ ~hist_read
    /\ (manual_price = Unbound /\ spot # Unbound) =>
         /\ spot_source = Bound("FEED")
         /\ hist_read
         /\ \E c \in Closes : Val(spot) = c * 10885

---------------------------------------------------------------------------
(* C8: no partial output. *)

\* C8: no exception leaves the callback, and what it returns is either the
\* fitted surface with the four-entry panel or the empty figure with the
\* single DATA ERROR message, whichever step failed.
C8_NoPartialOutput ==
  /\ pc # "escaped"
  /\ pc = "done" <=> ret # Unbound
  /\ ret # Unbound => (IsSuccess \/ IsError)
  /\ (ret # Unbound /\ exc # Unbound) => IsError

\* the fit failed after the grid axes were built, and the callback returned
\* the error pair
C8_Witness ==
  /\ pc = "done"
  /\ exc = Bound("LinAlgError")
  /\ ti_x # Unbound
  /\ IsError

---------------------------------------------------------------------------
(* C3: regime label. *)

Label == Children[4].text

Colour == Children[4].color

\* C3: the label returned is BEARISH exactly when skew > 0.02, BULLISH
\* exactly when skew < 0 and NEUTRAL otherwise, so at 0.02 and at 0 it is
\* NEUTRAL; and whenever otmVol > atmVol it is not BULLISH.
C3_RegimeLabel ==
  (ret # Unbound /\ exc = Unbound) =>
    /\ Label = "BEARISH" <=> Val(skew) > 200
    /\ Label = "BULLISH" <=> Val(skew) < 0
    /\ Label = "NEUTRAL" <=> (Val(skew) >= 0 /\ Val(skew) <= 200)
    /\ Val(otm_vol) > Val(atm_vol) => Label # "BULLISH"

\* a panel returned for a skew of exactly 0.02, labelled NEUTRAL
C3_Witness ==
  /\ pc = "done"
  /\ exc = Unbound
  /\ Val(skew) = 200
  /\ Val(otm_vol) > Val(atm_vol)
  /\ Label = "NEUTRAL"

---------------------------------------------------------------------------
(* C10: colour against label. *)

\* C10: the colour is red above 0.04, green below -0.01 and gold between,
\* on the skew entry as on the regime entry; red comes only with BEARISH
\* and green only with BULLISH, while BEARISH up to 0.04 and BULLISH down to
\* -0.01 are shown in gold.
C10_ColourAgreesWithLabel ==
  (ret # Unbound /\ exc = Unbound) =>
    /\ Children[3].color = Colour
    /\ Colour = "red" <=> Val(skew) > 400
    /\ Colour = "green" <=> Val(skew) < -100
    /\ Colour = "gold" <=> (Val(skew) >= -100 /\ Val(skew) <= 400)
    /\ Colour = "red" => Label = "BEARISH"
    /\ Colour = "green" => Label = "BULLISH"
    /\ (Label = "BEARISH" /\ Val(skew) <= 400) => Colour = "gold"
    /\ (Label = "BULLISH" /\ Val(skew) >= -100) => Colour = "gold"

\* a BEARISH label shown in gold, at a skew of exactly 0.04
C10_Witness ==
  /\ pc = "done"
  /\ exc = Unbound
  /\ Val(skew) = 400
  /\ Label = "BEARISH"
  /\ Colour = "gold"

---------------------------------------------------------------------------
(* C9: exact interpolation. *)

FitOver == pc = "stats" \/ exc = Bound("LinAlgError")

\* the mesh corner that lies on the point (px, py)
CornerAt(px, py) ==
  CHOOSE rc \in MeshCorners :
    /\ Val(ti_x)[rc[2]] = 29 * px
    /\ Val(ti_y)[rc[1]] = 29 * py

PairwiseDistinct ==
  \A i, j \in DOMAIN Val(df) :
    (Val(df)[i].x = Val(df)[j].x /\ Val(df)[i].y = Val(df)[j].y) => i = j

Fit_RaisesIffSingular ==
  pc = "rbf" => (RbfRaises(Val(df)) <=> Det(RbfMatrix(Val(df))) = 0)

\* supporting: a fit that succeeds passes through every observation
Fit_PassesThroughNodes ==
  (pc = "stats" /\ rbf # Unbound) =>
    \A i \in DOMAIN Val(df) :
      RbfValue(Val(rbf), Val(df), Val(df)[i].x, Val(df)[i].y)
        = Val(df)[i].z * Val(rbf).den

===========================================================================
